---- MODULE Spec2Model ----
(***************************************************************************)
(* Model of the media_scripts repository.                                  *)
(*                                                                         *)
(*   extract_clip.py           main, process_multiple_movies, extract_clip *)
(*   convert_album_to_alac.py  main, convert_file                          *)
(*                                                                         *)
(* One run of one script is one behaviour: `script` says which script was  *)
(* started, `pc` is the position of its single thread of control.          *)
(*                                                                         *)
(* --duration (a float option) is given whole seconds.  Durations and      *)
(* window times are doubles, and the arithmetic of lines 53-61 is the      *)
(* binary floating point arithmetic of Python: every operation computes    *)
(* the exact result and rounds it to the nearest double.                   *)
(* Python's None is the empty set and a given value v is the set {v}.      *)
(***************************************************************************)
EXTENDS Integers, Sequences, FiniteSets, TLC

(* ------------------------------ bounds -------------------------------- *)

\* number of *.mp4 files the recursive glob can find
MaxFiles == 2
\* largest value of --count
MaxCount == 3
\* largest of the small whole total durations (seconds) a probe reports
MaxTotal == 2
\* largest of the small values of --duration (seconds)
MaxClip == 1
\* the random draw random() takes the values 0/RandSteps .. RandSteps/RandSteps
RandSteps == 1
\* number of distinct track names in the album directory
MaxStems == 2

(* ------------------------- program constants -------------------------- *)

\* buffer_percent = 0.15, in percent
BufferPercent == 15
\* the 0.7 of `duration / 0.7`, in percent
MiddlePercent == 70
\* default of --duration
DefaultDuration == 5
\* sys.exit(4) when the album has no .m4a files
ExitNoFiles == 4

VARIABLES
    script,           \* which script this run executes
    pc,               \* position of the thread of control
    exit_code,        \* process exit status; -1 while the process runs
    output,           \* lines printed so far, as <<kind, argument>> records
    args,             \* argparse namespace of extract_clip.py
    mode,             \* the branch main took: "none", "single" or "batch"
    found,            \* what glob finds under --source (environment)
    movie_files,      \* process_multiple_movies: movie_files
    num_movies,       \* process_multiple_movies: num_movies
    selected_movies,  \* process_multiple_movies: selected_movies
    i,                \* process_multiple_movies: items of the loop completed
    results,          \* outcome of every extract_clip call, in call order
    call,             \* details of the latest extract_clip call ({} if none)
    remove,           \* convert_album_to_alac.py: args.remove
    dest,             \* convert_album_to_alac.py: args.dest
    album_ok,         \* whether album_dir is a directory (environment)
    fs,               \* the files of album_dir and of the destination
    fs0,              \* fs as it was when the run started
    m4a_files,        \* main: m4a_files
    idx,              \* main: iterations of the loop completed
    processed,        \* main: processed
    failed,           \* main: failed
    skipped,          \* main: skipped
    skipped_files,    \* main: skipped_files
    history,          \* what each iteration did to its input file
    mkdirs            \* the directories main has made sure exist

vars == <<script, pc, exit_code, output, args, mode, found, movie_files, num_movies,
          selected_movies, i, results, call, remove, dest, album_ok, fs, fs0,
          m4a_files, idx, processed, failed, skipped, skipped_files, history,
          mkdirs>>

albumVars == <<remove, dest, album_ok, fs, fs0, m4a_files, idx, processed,
               failed, skipped, skipped_files, history, mkdirs>>

clipVars == <<args, mode, found, movie_files, num_movies, selected_movies, i,
              results, call>>

(* ----------------------------- helpers -------------------------------- *)

None == {}

Some(v) == {v}

Get(opt) == CHOOSE v \in opt : TRUE

Msg(kind, arg) == [kind |-> kind, arg |-> arg]

Range(s) == {s[k] : k \in 1..Len(s)}

\* Python truthiness of an optional string argument: None and "" are falsy
TruthyStr(opt) == opt # None /\ Get(opt) # ""

\* Python truthiness of an optional int argument: None and 0 are falsy
TruthyInt(opt) == opt # None /\ Get(opt) # 0

(* ------------------------ extract_clip.py ----------------------------- *)

\* the paths the glob can return: distinct paths, in directory order
Paths == <<"m1.mp4", "m2.mp4", "m3.mp4", "m4.mp4">>

Inputs == {None, Some(""), Some("in.mp4")}

Sources == {None, Some(""), Some("videos")}

Counts == {None} \cup {Some(n) : n \in -1..MaxCount}

\* values of --duration: 21 s is a clip that is exactly the middle 70% of a
\* 30 s video; 3 / 0.7 is a quotient that rounds down, 5 / 0.7 and 21 / 0.7
\* round up
ClipDurations == (1..MaxClip) \cup {3, DefaultDuration, 21}

(* Naturals of any size: sequences of digits to the base Base, lowest digit
   first, without leading zero digits; <<>> is 0.  The arithmetic is written
   as functions, whose arguments are values. *)

DigitBits == 14

Base == 16384

Big == Seq(0..(Base - 1))

Pow2[k \in Nat] == IF k = 0 THEN 1 ELSE 2 * Pow2[k - 1]

IntBitLen[n \in Nat] == IF n = 0 THEN 0 ELSE 1 + IntBitLen[n \div 2]

BigFromInt[n \in Nat] ==
    IF n = 0 THEN <<>> ELSE <<n % Base>> \o BigFromInt[n \div Base]

Trim[a \in Big] ==
    IF a = <<>> THEN a
    ELSE IF a[Len(a)] = 0 THEN Trim[SubSeq(a, 1, Len(a) - 1)] ELSE a

Digit[a \in Big, j \in Nat] == IF j <= Len(a) THEN a[j] ELSE 0

BigAddFrom[a \in Big, b \in Big, j \in Nat, carry \in Nat] ==
    IF j > Len(a) /\ j > Len(b)
    THEN IF carry = 0 THEN <<>> ELSE <<carry>>
    ELSE <<(Digit[a, j] + Digit[b, j] + carry) % Base>>
         \o BigAddFrom[a, b, j + 1, (Digit[a, j] + Digit[b, j] + carry) \div Base]

BigAdd[a \in Big, b \in Big] == BigAddFrom[a, b, 1, 0]

BigSubFrom[a \in Big, b \in Big, j \in Nat, borrow \in Nat] ==
    IF j > Len(a) THEN <<>>
    ELSE <<(a[j] - Digit[b, j] - borrow + Base) % Base>>
         \o BigSubFrom[a, b, j + 1,
                       IF a[j] - Digit[b, j] - borrow < 0 THEN 1 ELSE 0]

\* a - b for a >= b
BigSub[a \in Big, b \in Big] == Trim[BigSubFrom[a, b, 1, 0]]

BigCmpFrom[a \in Big, b \in Big, j \in Nat] ==
    IF j = 0 THEN 0
    ELSE IF a[j] # b[j] THEN (IF a[j] < b[j] THEN -1 ELSE 1)
    ELSE BigCmpFrom[a, b, j - 1]

\* -1, 0 or 1 as a < b, a = b or a > b
BigCmp[a \in Big, b \in Big] ==
    IF Len(a) # Len(b) THEN (IF Len(a) < Len(b) THEN -1 ELSE 1)
    ELSE BigCmpFrom[a, b, Len(a)]

BigMulSmallFrom[a \in Big, k \in Nat, j \in Nat, carry \in Nat] ==
    IF j > Len(a)
    THEN BigFromInt[carry]
    ELSE <<(a[j] * k + carry) % Base>>
         \o BigMulSmallFrom[a, k, j + 1, (a[j] * k + carry) \div Base]

\* a * k for 0 <= k <= Base
BigMulSmall[a \in Big, k \in Nat] ==
    IF k = 0 THEN <<>> ELSE BigMulSmallFrom[a, k, 1, 0]

\* a * Base^n
ShiftDigits[a \in Big, n \in Nat] ==
    IF a = <<>> THEN a ELSE [j \in 1..n |-> 0] \o a

BigMulFrom[a \in Big, b \in Big, j \in Nat] ==
    IF j > Len(b) THEN <<>>
    ELSE BigAdd[BigMulSmall[a, b[j]], ShiftDigits[BigMulFrom[a, b, j + 1], 1]]

BigMul[a \in Big, b \in Big] == BigMulFrom[a, b, 1]

\* a * 2^k
BigShl[a \in Big, k \in Nat] ==
    ShiftDigits[BigMulSmall[a, Pow2[k % DigitBits]], k \div DigitBits]

\* the digits of a from digit n + 1 on
DropDigits[a \in Big, n \in Nat] ==
    IF n >= Len(a) THEN <<>> ELSE SubSeq(a, n + 1, Len(a))

\* a \div p for a power of two p <= Base
BigDivPow2[a \in Big, p \in Nat] ==
    Trim[[j \in 1..Len(a) |->
            (a[j] \div p) + (Digit[a, j + 1] % p) * (Base \div p)]]

\* a \div 2^k
BigShr[a \in Big, k \in Nat] ==
    BigDivPow2[DropDigits[a, k \div DigitBits], Pow2[k % DigitBits]]

\* the number of binary digits of a
BitLen[a \in Big] ==
    IF a = <<>> THEN 0
    ELSE DigitBits * (Len(a) - 1) + IntBitLen[a[Len(a)]]

IsOdd[a \in Big] == a # <<>> /\ a[1] % 2 = 1

(* Binary floating point.  [neg, m, e] is the number (-1)^neg * m * 2^e; it
   is a double (IEEE 754 binary64, the float of Python) when m is 0 or has
   exactly MantBits binary digits.  Subnormal numbers, infinities and NaN do
   not occur at the magnitudes of durations. *)

MantBits == 53

Num == [neg : BOOLEAN, m : Big, e : Int]

Zero == [neg |-> FALSE, m |-> <<>>, e |-> 0]

\* the whole number n, exactly
XInt[n \in Int] ==
    [neg |-> n < 0, m |-> BigFromInt[IF n < 0 THEN -n ELSE n], e |-> 0]

XNeg[x \in Num] == IF x.m = <<>> THEN x ELSE [x EXCEPT !.neg = ~@]

\* x * k, exactly, for 0 <= k <= Base
XMulInt[x \in Num, k \in Nat] ==
    IF k = 0 \/ x.m = <<>> THEN Zero ELSE [x EXCEPT !.m = BigMulSmall[@, k]]

XMul[x \in Num, y \in Num] ==
    IF x.m = <<>> \/ y.m = <<>> THEN Zero
    ELSE [neg |-> x.neg # y.neg, m |-> BigMul[x.m, y.m], e |-> x.e + y.e]

\* x + y for mantissas mx and my that belong to the same exponent e
XAddAligned[xneg \in BOOLEAN, mx \in Big, yneg \in BOOLEAN, my \in Big, e \in Int] ==
    IF xneg = yneg
    THEN [neg |-> xneg, m |-> BigAdd[mx, my], e |-> e]
    ELSE IF BigCmp[mx, my] = 0 THEN Zero
    ELSE IF BigCmp[mx, my] > 0
    THEN [neg |-> xneg, m |-> BigSub[mx, my], e |-> e]
    ELSE [neg |-> yneg, m |-> BigSub[my, mx], e |-> e]

XAdd[x \in Num, y \in Num] ==
    IF x.m = <<>> THEN y
    ELSE IF y.m = <<>> THEN x
    ELSE IF x.e < y.e
    THEN XAddAligned[x.neg, x.m, y.neg, BigShl[y.m, y.e - x.e], x.e]
    ELSE XAddAligned[x.neg, BigShl[x.m, x.e - y.e], y.neg, y.m, y.e]

\* the sign of x: -1, 0 or 1
Sign[x \in Num] == IF x.m = <<>> THEN 0 ELSE IF x.neg THEN -1 ELSE 1

\* the sign of x - y
XCmp[x \in Num, y \in Num] == Sign[XAdd[x, XNeg[y]]]

\* the mantissa q of MantBits digits, or q + 1, whichever is nearer to
\* q + rest / 2^s, the even one when both are as near
RoundUp[q \in Big, rest \in Big, s \in Nat] ==
    IF \/ BigCmp[BigShl[rest, 1], BigShl[<<1>>, s]] > 0
       \/ (BigCmp[BigShl[rest, 1], BigShl[<<1>>, s]] = 0 /\ IsOdd[q])
    THEN BigAdd[q, <<1>>] ELSE q

\* the double of mantissa m, which has MantBits or MantBits + 1 digits
Renorm[neg \in BOOLEAN, m \in Big, e \in Int] ==
    IF BitLen[m] > MantBits
    THEN [neg |-> neg, m |-> BigShr[m, 1], e |-> e + 1]
    ELSE [neg |-> neg, m |-> m, e |-> e]

\* x with the s low digits of its mantissa rounded off
RoundOff[x \in Num, s \in Nat, q \in Big] ==
    Renorm[x.neg, RoundUp[q, BigSub[x.m, BigShl[q, s]], s], x.e + s]

\* rounding to the nearest double, ties to the even mantissa
Round[x \in Num] ==
    IF x.m = <<>> THEN Zero
    ELSE IF BitLen[x.m] <= MantBits
    THEN [neg |-> x.neg, m |-> BigShl[x.m, MantBits - BitLen[x.m]],
          e |-> x.e - (MantBits - BitLen[x.m])]
    ELSE RoundOff[x, BitLen[x.m] - MantBits,
                  BigShr[x.m, BitLen[x.m] - MantBits]]

\* the float of a whole number
FromInt[n \in Int] == Round[XInt[n]]

\* x * y, x + y, x - y and x < y on doubles
FMul[x \in Num, y \in Num] == Round[XMul[x, y]]

FAdd[x \in Num, y \in Num] == Round[XAdd[x, y]]

FSub[x \in Num, y \in Num] == Round[XAdd[x, XNeg[y]]]

FLess[x \in Num, y \in Num] == XCmp[x, y] < 0

\* long division: after the steps, q holds the leading binary digits of
\* the quotient and r is 0 exactly when the division left no remainder
DivLoop[r \in Big, d \in Big, q \in Big, steps \in Nat] ==
    IF steps = 0 THEN [q |-> q, r |-> r]
    ELSE IF BigCmp[r, d] >= 0
    THEN DivLoop[BigShl[BigSub[r, d], 1], d,
                 BigAdd[BigShl[q, 1], <<1>>], steps - 1]
    ELSE DivLoop[BigShl[r, 1], d, BigShl[q, 1], steps - 1]

\* the quotient digits q followed by one more digit that says whether a
\* remainder r is left
Sticky[q \in Big, r \in Big] ==
    BigAdd[BigShl[q, 1], IF r = <<>> THEN <<>> ELSE <<1>>]

\* x / y on doubles, y # 0: the quotient of the mantissas to MantBits + 4
\* binary digits and the digit for the remainder, rounded
FDiv[x \in Num, y \in Num] ==
    IF x.m = <<>> THEN Zero
    ELSE Round[[neg |-> x.neg # y.neg,
                m |-> LET res == DivLoop[x.m, y.m, <<>>, MantBits + 5]
                             IN Sticky[res.q, res.r],
                e |-> x.e - y.e - (MantBits + 5)]]

\* the double k units in the last place above the double x (x > 0)
Ulps[x \in Num, k \in Int] ==
    IF k >= 0
    THEN Round[[x EXCEPT !.m = BigAdd[@, BigFromInt[k]]]]
    ELSE IF BitLen[BigSub[x.m, BigFromInt[-k]]] < MantBits
    THEN [x EXCEPT !.m = BigSub[BigShl[@, 1], BigFromInt[-k]], !.e = @ - 1]
    ELSE [x EXCEPT !.m = BigSub[@, BigFromInt[-k]]]

\* the literal 0.7 of line 53
MiddleFraction == FDiv[FromInt[MiddlePercent], FromInt[100]]

\* buffer_percent = 0.15, line 57
buffer_percent == FDiv[FromInt[BufferPercent], FromInt[100]]

\* line 53: duration / 0.7
Threshold(duration) == FDiv[FromInt[duration], MiddleFraction]

\* video.duration, a float, as a call with the given duration can find it:
\* whole seconds (1200 is the 20-minute video of the documented scenario)
\* and the doubles at and next to duration / 0.7
TotalDurations ==
    [duration \in ClipDurations |->
        {FromInt[t] : t \in (0..MaxTotal) \cup {30, 1200}}
        \cup {Ulps[Threshold(duration), k] : k \in -1..1}]

\* the values of random.random(), doubles in [0, 1): 0, 1 - 2^-j for
\* j = 1 .. RandSteps, and the largest one, 1 - 2^-53
RandomValues ==
    [j \in 0..(RandSteps + 1) |->
        IF j = 0 THEN Zero
        ELSE LET k == IF j <= RandSteps THEN j ELSE MantBits
             IN  Round[[neg |-> FALSE, m |-> BigSub[BigShl[<<1>>, k], <<1>>],
                        e |-> -k]]]

\* line 53: total_duration < (duration / 0.7)
TooShort(total_duration, duration) ==
    FLess[total_duration, Threshold(duration)]

\* line 58: total_duration * buffer_percent
MinStart(total_duration) == FMul[total_duration, buffer_percent]

\* line 59: total_duration * (1 - buffer_percent) - duration
MaxStart(total_duration, duration) ==
    FSub[FMul[total_duration, FSub[FromInt[1], buffer_percent]],
         FromInt[duration]]

\* random.uniform(a, b) = a + (b - a) * random()
Uniform(a, b, r) == FAdd[a, FMul[FSub[b, a], r]]

\* lines 53-61 for the video, the duration and the random value: whether the
\* video is too short and, when it is not, the window
Window(total_duration, duration, r) ==
    IF TooShort(total_duration, duration)
    THEN [too_short |-> TRUE, window |-> <<>>]
    ELSE LET min_start == MinStart(total_duration)
             max_start == MaxStart(total_duration, duration)
             start_time == Uniform(min_start, max_start, r)
             end_time == FAdd[start_time, FromInt[duration]]
         IN  [too_short |-> FALSE, window |-> <<start_time, end_time>>]

\* lines 53-61 for every duration, total duration and random value of the
\* model
Windows ==
    [duration \in ClipDurations |->
        [total_duration \in TotalDurations[duration] |->
            [j \in DOMAIN RandomValues |->
                Window(total_duration, duration, RandomValues[j])]]]

\* what the collaborators do during one extract_clip call
\* (what follows a failure is never consulted, so it is fixed)
Envs(duration) ==
    {[makedirs_ok |-> FALSE, probe_ok |-> FALSE, total |-> Zero, r |-> 0,
      write_ok |-> FALSE],
     [makedirs_ok |-> TRUE, probe_ok |-> FALSE, total |-> Zero, r |-> 0,
      write_ok |-> FALSE]}
    \cup {e \in [makedirs_ok : {TRUE}, probe_ok : {TRUE},
                 total : TotalDurations[duration],
                 r : DOMAIN RandomValues, write_ok : BOOLEAN] :
             Windows[duration][e.total][e.r].too_short
                => (e.r = 0 /\ ~e.write_ok)}

\* mutant of Caught: only the ValueError of the too-short test is caught
Caught_ValueError(outcome) == outcome = "too_short"

\* line 73: `except Exception` catches every failure raised in the body
Caught(outcome) == TRUE

\* extract_clip(input_file, output_file, duration), lines 44-74: the record of
\* what the call did.  total is None or the probed total_duration; window is
\* <<>> or <<start_time, end_time>>; extracted says whether subclipped /
\* write_videofile was called; raised says whether an exception left the
\* function.
ExtractClip(input_file, duration, env) ==
    LET base == [input |-> input_file, duration |-> duration, total |-> None,
                 window |-> <<>>, extracted |-> FALSE]
        fail(rec, outcome) ==
            [rec EXCEPT !.outcome = outcome, !.raised = ~Caught(outcome),
                        !.printed = IF Caught(outcome) THEN "error" ELSE "traceback"]
        b0 == [k \in DOMAIN base \cup {"outcome", "raised", "printed"} |->
                 IF k \in DOMAIN base THEN base[k]
                 ELSE IF k = "raised" THEN FALSE ELSE "ok"]
    IN  IF ~env.makedirs_ok THEN fail(b0, "io_error")
        ELSE IF ~env.probe_ok THEN fail(b0, "probe_error")
        ELSE LET b1 == [b0 EXCEPT !.total = Some(env.total)]
                 w == Windows[duration][env.total][env.r]
             IN  IF w.too_short THEN fail(b1, "too_short")
                 ELSE LET b2 == [b1 EXCEPT !.window = w.window,
                                           !.extracted = TRUE]
                      IN  IF ~env.write_ok THEN fail(b2, "extract_error")
                          ELSE [b2 EXCEPT !.printed = "extracted"]

\* mutant of RandomSample: a draw with replacement (random.choices)
RandomSample_Replace(population, k) ==
    IF k < 0 \/ k > Len(population) THEN {}
    ELSE {[j \in 1..k |-> population[p[j]]] :
            p \in [1..k -> 1..Len(population)]}

\* random.sample(population, k): the sequences of k elements at distinct
\* positions of population; the empty set when it raises ValueError
RandomSample(population, k) ==
    IF k < 0 \/ k > Len(population) THEN {}
    ELSE {[j \in 1..k |-> population[p[j]]] :
            p \in {q \in [1..k -> 1..Len(population)] :
                     \A a, b \in 1..k : a # b => q[a] # q[b]}}

\* mutant of Clamp: the request is passed on as it is
Clamp_Missing(n, files) == n

\* lines 81-83: the clamp of num_movies to the number of files found
Clamp(n, files) == IF Len(files) < n THEN Len(files) ELSE n

\* lines 102-111 of main: mode arbitration
Main ==
    /\ script = "extract_clip"
    /\ pc = "main"
    /\ IF TruthyStr(args.input)
       THEN IF TruthyStr(args.source) \/ TruthyInt(args.count)
            THEN /\ output' = Append(output, Msg("config_error", <<>>))
                 /\ pc' = "exited"
                 /\ exit_code' = 1
                 /\ UNCHANGED mode
            ELSE /\ pc' = "single"
                 /\ mode' = "single"
                 /\ UNCHANGED <<output, exit_code>>
       ELSE IF TruthyStr(args.source) /\ TruthyInt(args.count)
            THEN /\ pc' = "batch"
                 /\ mode' = "batch"
                 /\ UNCHANGED <<output, exit_code>>
            ELSE /\ output' = Append(output, Msg("config_error", <<>>))
                 /\ pc' = "exited"
                 /\ exit_code' = 1
                 /\ UNCHANGED mode
    /\ UNCHANGED <<script, args, found, movie_files, num_movies,
                   selected_movies, i, results, call, albumVars>>

\* line 106: extract_clip(args.input, args.output, args.duration), then the
\* end of main
SingleFile ==
    /\ script = "extract_clip"
    /\ pc = "single"
    /\ \E env \in Envs(args.duration) :
         \E res \in {ExtractClip(Get(args.input), args.duration, env)} :
             /\ call' = Some(res)
             /\ results' = Append(results, res.outcome)
             /\ output' = Append(output, Msg(res.printed, <<res.input>>))
             /\ IF res.raised
                THEN pc' = "crashed" /\ exit_code' = 1
                ELSE pc' = "done" /\ exit_code' = 0
    /\ UNCHANGED <<script, args, mode, found, movie_files, num_movies,
                   selected_movies, i, albumVars>>

\* lines 77-85 of process_multiple_movies: glob, clamp, random.sample
SelectMovies ==
    /\ script = "extract_clip"
    /\ pc = "batch"
    /\ LET files == found
           requested == Get(args.count)
           n == Clamp(requested, files)
           out == IF Len(files) < requested
                  THEN Append(output, Msg("warning", <<Len(files)>>))
                  ELSE output
       IN  /\ movie_files' = files
           /\ num_movies' = n
           /\ \E samples \in {RandomSample(files, n)} :
                IF samples = {}
                THEN /\ output' = Append(out, Msg("traceback", <<>>))
                     /\ pc' = "crashed"
                     /\ exit_code' = 1
                     /\ UNCHANGED selected_movies
                ELSE /\ \E s \in samples : selected_movies' = s
                     /\ output' = out
                     /\ pc' = "loop"
                     /\ UNCHANGED exit_code
    /\ UNCHANGED <<script, args, mode, found, i, results, call, albumVars>>

\* lines 86-90: one iteration of the loop over selected_movies
ProcessMovie ==
    /\ script = "extract_clip"
    /\ pc = "loop"
    /\ i < Len(selected_movies)
    /\ \E env \in Envs(args.duration) :
         \E res \in {ExtractClip(selected_movies[i + 1], args.duration, env)} :
             /\ call' = Some(res)
             /\ results' = Append(results, res.outcome)
             /\ output' = output \o <<Msg("processing", <<i + 1, num_movies>>),
                                      Msg(res.printed, <<res.input>>)>>
             /\ IF res.raised
                THEN pc' = "crashed" /\ exit_code' = 1 /\ UNCHANGED i
                ELSE i' = i + 1 /\ UNCHANGED <<pc, exit_code>>
    /\ UNCHANGED <<script, args, mode, found, movie_files, num_movies,
                   selected_movies, albumVars>>

\* the loop is exhausted: process_multiple_movies returns and main ends
BatchEnd ==
    /\ script = "extract_clip"
    /\ pc = "loop"
    /\ i = Len(selected_movies)
    /\ pc' = "done"
    /\ exit_code' = 0
    /\ UNCHANGED <<script, output, clipVars, albumVars>>

(* --------------------- convert_album_to_alac.py ----------------------- *)

\* A path is [dir, stem, alac]: the file <stem> followed by alac times "_alac"
\* and then ".m4a", in directory dir ("album" is album_dir, "dest" is
\* <dest>/<album name> when that is another directory).  A stem is a
\* string, written as the sequence of its characters.
StemNames == << <<"1">>, <<"1", "0">>, <<"2">>, <<"t">> >>

Stems == {StemNames[k] : k \in 1..MaxStems}

\* the code point of a character
Code(ch) ==
    CASE ch = "." -> 46 [] ch = "0" -> 48 [] ch = "1" -> 49 [] ch = "2" -> 50
      [] ch = "4" -> 52 [] ch = "_" -> 95 [] ch = "a" -> 97 [] ch = "c" -> 99
      [] ch = "l" -> 108 [] ch = "m" -> 109 [] ch = "t" -> 116

RECURSIVE Alacs(_)
Alacs(n) == IF n = 0 THEN <<>> ELSE <<"_", "a", "l", "a", "c">> \o Alacs(n - 1)

\* input_file.name
FileName(p) == p.stem \o Alacs(p.alac) \o <<".", "m", "4", "a">>

\* str.endswith
EndsWith(str, suffix) ==
    /\ Len(str) >= Len(suffix)
    /\ SubSeq(str, Len(str) - Len(suffix) + 1, Len(str)) = suffix

\* the order of Python strings: by code point at the first difference, a
\* proper prefix first
StrLess(a, b) ==
    \E k \in 1..(Len(a) + 1) :
        /\ k <= Len(b)
        /\ \A j \in 1..(k - 1) : a[j] = b[j]
        /\ \/ k = Len(a) + 1
           \/ k <= Len(a) /\ Code(a[k]) < Code(b[k])

AllPaths == [dir : {"album", "dest"}, stem : Stems, alac : 0..1]

Dests == {None, Some("parent"), Some("elsewhere")}

\* lines 88-95: dest_album_dir.  A --dest that is the parent directory of
\* album_dir makes dest_dir / album_dir.name album_dir itself.
DestAlbumDir(d) ==
    IF d = None THEN "album"
    ELSE IF Get(d) = "parent" THEN "album" ELSE "dest"

\* the order of sorted() on the paths of one directory: that of their names
PathLess(a, b) == StrLess(FileName(a), FileName(b))

RECURSIVE Sorted(_)
Sorted(S) ==
    IF S = {} THEN <<>>
    ELSE LET m == CHOOSE x \in S : \A y \in S \ {x} : PathLess(x, y)
         IN  <<m>> \o Sorted(S \ {m})

\* line 97: sorted(album_dir.glob('*.m4a')), files and directories alike
GlobM4a(files) ==
    Sorted({p \in AllPaths : p.dir = "album" /\ files[p] # "absent"})

\* line 112: input_file.name.endswith('_alac.m4a')
EndsWithAlac(p) ==
    EndsWith(FileName(p), <<"_", "a", "l", "a", "c", ".", "m", "4", "a">>)

\* lines 124-127: output_file
OutputFile(input_file, d) ==
    IF d # None
    THEN [input_file EXCEPT !.dir = DestAlbumDir(d)]
    ELSE [input_file EXCEPT !.alac = @ + 1]

\* what ffprobe, ffmpeg and the file system do during one iteration: the
\* codec get_audio_codec returns ("error" is ffprobe failing, lines 54-56),
\* whether get_metadata's ffprobe works (lines 37-39), how ffmpeg ends, and
\* whether the unlink of the iteration (line 137 or line 142) is permitted
\* (what is never consulted is fixed: get_metadata and ffmpeg run for a
\* FLAC file only, an unlink follows only a conversion that ended)
AlbumEnvs ==
    {e \in [codec : {"none", "flac", "aac", "error"},
            metadata_ok : BOOLEAN,
            ffmpeg : {"ok", "error_partial", "error_clean", "not_started",
                      "ok_undecodable", "error_undecodable"},
            unlink_ok : BOOLEAN] :
        /\ e.codec # "flac" => (e.metadata_ok /\ e.ffmpeg = "ok")
        /\ (e.codec # "flac" \/ e.ffmpeg \notin {"ok", "error_partial"})
             => e.unlink_ok}

\* convert_file, lines 58-73: ffmpeg writes output_file; a failing ffmpeg may
\* leave a partial output behind.  subprocess.run (line 67) is outside any
\* try: it raises when ffmpeg cannot be started, and (text=True) when what
\* ffmpeg printed cannot be decoded, after ffmpeg has written its output
ConvertFile(files, output_file, ffmpeg) ==
    IF ffmpeg = "not_started"
    THEN [success |-> FALSE, raised |-> TRUE, fs |-> files]
    ELSE IF ffmpeg = "ok_undecodable"
    THEN [success |-> FALSE, raised |-> TRUE,
          fs |-> [files EXCEPT ![output_file] = "alac"]]
    ELSE IF ffmpeg = "error_undecodable"
    THEN [success |-> FALSE, raised |-> TRUE,
          fs |-> [files EXCEPT ![output_file] = "partial"]]
    ELSE IF ffmpeg = "ok"
    THEN [success |-> TRUE, raised |-> FALSE,
          fs |-> [files EXCEPT ![output_file] = "alac"]]
    ELSE IF ffmpeg = "error_partial"
    THEN [success |-> FALSE, raised |-> FALSE,
          fs |-> [files EXCEPT ![output_file] = "partial"]]
    ELSE [success |-> FALSE, raised |-> FALSE, fs |-> files]

\* lines 89-93: dest_dir.mkdir and dest_album_dir.mkdir (exist_ok), each of
\* which raises when the path is taken by a file or cannot be created.  The
\* parent of album_dir and album_dir itself exist.
DestMkdirs(d) ==
    IF d = None THEN {[made |-> <<>>, raised |-> FALSE]}
    ELSE IF Get(d) = "parent"
    THEN {[made |-> <<"dest_dir", "dest_album_dir">>, raised |-> FALSE]}
    ELSE {[made |-> <<"dest_dir", "dest_album_dir">>, raised |-> FALSE],
          [made |-> <<"dest_dir">>, raised |-> TRUE],
          [made |-> <<>>, raised |-> TRUE]}

\* mutant of ShouldUnlink: the -r flag is not consulted
ShouldUnlink_NoFlag(success, rm) == success

\* lines 134-136: the source is unlinked when the conversion succeeded and
\* -r was given
ShouldUnlink(success, rm) == success /\ rm

\* mutant of Skip: the file is counted but not listed
Skip_NotListed(t, input_file) == [t EXCEPT !.skipped = @ + 1]

\* the skip branches, lines 109-110, 114-115, 120-121, 130-131
Skip(t, input_file) ==
    [t EXCEPT !.skipped = @ + 1,
              !.skipped_files = Append(@, input_file)]

\* one iteration of the loop, lines 106-142, on tally t and file system files
LoopBody(t, files, input_file, rm, d, env) ==
    LET skip(before, reason, named) ==
            [tally |-> Skip(t, input_file), fs |-> files, what |-> "skipped",
             unlinked |-> FALSE, crashed |-> FALSE,
             prints |-> before \o <<Msg(reason, <<named>>)>>]
        output_file == OutputFile(input_file, d)
        codec_warning == IF env.codec = "error"
                         THEN <<Msg("codec_warning", <<input_file>>)>>
                         ELSE <<>>
        metadata_warning == IF env.metadata_ok
                            THEN <<>>
                            ELSE <<Msg("metadata_warning", <<input_file>>)>>
        converting == metadata_warning \o <<Msg("converting", <<input_file>>)>>
    IN  IF files[input_file] # "file"
        THEN skip(<<>>, "skip_nonfile", input_file)
        ELSE IF EndsWithAlac(input_file)
        THEN skip(<<>>, "skip_converted", input_file)
        ELSE IF env.codec # "flac"
        THEN skip(codec_warning, "skip_nonflac", input_file)
        ELSE IF files[output_file] # "absent"
        THEN skip(metadata_warning, "skip_exists", output_file)
        ELSE LET conv == ConvertFile(files, output_file, env.ffmpeg)
             IN  IF conv.raised
                 THEN [tally |-> t, fs |-> conv.fs, what |-> "aborted",
                       unlinked |-> FALSE, crashed |-> TRUE,
                       prints |-> converting \o <<Msg("traceback", <<>>)>>]
                 ELSE IF conv.success
                 THEN LET t1 == [t EXCEPT !.processed = @ + 1]
                      IN  IF ShouldUnlink(conv.success, rm)
                          THEN IF env.unlink_ok
                               THEN [tally |-> t1,
                                     fs |-> [conv.fs EXCEPT ![input_file] = "absent"],
                                     what |-> "processed", unlinked |-> TRUE,
                                     crashed |-> FALSE,
                                     prints |-> converting \o
                                                <<Msg("success", <<output_file>>),
                                                  Msg("deleted", <<input_file>>)>>]
                               ELSE [tally |-> t1, fs |-> conv.fs,
                                     what |-> "processed", unlinked |-> FALSE,
                                     crashed |-> TRUE,
                                     prints |-> converting \o
                                                <<Msg("success", <<output_file>>),
                                                  Msg("traceback", <<>>)>>]
                          ELSE [tally |-> t1, fs |-> conv.fs,
                                what |-> "processed", unlinked |-> FALSE,
                                crashed |-> FALSE,
                                prints |-> converting \o
                                           <<Msg("success", <<output_file>>)>>]
                 ELSE LET t1 == [t EXCEPT !.failed = @ + 1]
                      IN  IF conv.fs[output_file] = "absent"
                          THEN [tally |-> t1, fs |-> conv.fs,
                                what |-> "failed", unlinked |-> FALSE,
                                crashed |-> FALSE,
                                prints |-> converting \o
                                           <<Msg("convert_error", <<input_file>>)>>]
                          ELSE IF env.unlink_ok
                          THEN [tally |-> t1,
                                fs |-> [conv.fs EXCEPT ![output_file] = "absent"],
                                what |-> "failed", unlinked |-> FALSE,
                                crashed |-> FALSE,
                                prints |-> converting \o
                                           <<Msg("convert_error", <<input_file>>)>>]
                          ELSE [tally |-> t1, fs |-> conv.fs,
                                what |-> "failed", unlinked |-> FALSE,
                                crashed |-> TRUE,
                                prints |-> converting \o
                                           <<Msg("convert_error", <<input_file>>),
                                             Msg("traceback", <<>>)>>]

\* lines 83-104 of main: the directory check, the glob, the empty-album exit
AlbumMain ==
    /\ script = "convert_album_to_alac"
    /\ pc = "main"
    /\ IF ~album_ok
       THEN /\ output' = Append(output, Msg("no_directory", <<>>))
            /\ pc' = "exited"
            /\ exit_code' = 1
            /\ UNCHANGED <<m4a_files, mkdirs>>
       ELSE \E mk \in DestMkdirs(dest) :
            /\ mkdirs' = mk.made
            /\ IF mk.raised
               THEN /\ output' = Append(output, Msg("traceback", <<>>))
                    /\ pc' = "crashed"
                    /\ exit_code' = 1
                    /\ UNCHANGED m4a_files
               ELSE \E files \in {GlobM4a(fs)} :
                    /\ m4a_files' = files
                    /\ IF files = <<>>
                       THEN /\ output' = Append(output, Msg("no_m4a", <<>>))
                            /\ pc' = "exited"
                            /\ exit_code' = ExitNoFiles
                       ELSE /\ output' = Append(output,
                                                Msg("found", <<Len(files)>>))
                            /\ pc' = "loop"
                            /\ UNCHANGED exit_code
    /\ UNCHANGED <<script, clipVars, remove, dest, album_ok, fs, fs0, idx,
                   processed, failed, skipped, skipped_files, history>>

\* lines 106-142: one iteration of the loop over m4a_files
ConvertNext ==
    /\ script = "convert_album_to_alac"
    /\ pc = "loop"
    /\ idx < Len(m4a_files)
    /\ \E env \in AlbumEnvs :
         \E step \in {LoopBody([processed |-> processed, failed |-> failed,
                                skipped |-> skipped,
                                skipped_files |-> skipped_files],
                               fs, m4a_files[idx + 1], remove, dest, env)} :
             /\ processed' = step.tally.processed
             /\ failed' = step.tally.failed
             /\ skipped' = step.tally.skipped
             /\ skipped_files' = step.tally.skipped_files
             /\ fs' = step.fs
             /\ output' = output \o step.prints
             /\ history' = Append(history, [file |-> m4a_files[idx + 1],
                                            what |-> step.what,
                                            unlinked |-> step.unlinked])
             /\ IF step.crashed
                THEN pc' = "crashed" /\ exit_code' = 1 /\ UNCHANGED idx
                ELSE idx' = idx + 1 /\ UNCHANGED <<pc, exit_code>>
    /\ UNCHANGED <<script, clipVars, remove, dest, album_ok, fs0, m4a_files,
                   mkdirs>>

\* lines 144-152: the summary, the list of skipped files when there is one,
\* where the converted files are and the next steps, then the end of main
AlbumEnd ==
    /\ script = "convert_album_to_alac"
    /\ pc = "loop"
    /\ idx = Len(m4a_files)
    /\ output' = output
                 \o <<Msg("summary", <<processed, failed, skipped>>)>>
                 \o (IF skipped_files # <<>>
                     THEN <<Msg("skipped_files", skipped_files)>>
                     ELSE <<>>)
                 \o <<Msg("converted_in", <<DestAlbumDir(dest)>>),
                      Msg("next_steps", <<DestAlbumDir(dest)>>)>>
    /\ pc' = "done"
    /\ exit_code' = 0
    /\ UNCHANGED <<script, clipVars, albumVars>>

(* --------------------------- specification ---------------------------- *)

\* the file systems a run can start from: album entries are files or
\* directories, destination entries are files
InitialFs ==
    {f \in [AllPaths -> {"absent", "file", "dir"}] :
        \A p \in AllPaths :
            /\ (f[p] = "dir" => p.dir = "album" /\ p.alac = 0)
            /\ (p.dir = "dest" /\ p.alac = 1 => f[p] = "absent")}

ClipIdle ==
    /\ args = [input |-> None, source |-> None, count |-> None,
               duration |-> DefaultDuration]
    /\ mode = "none"
    /\ found = <<>>
    /\ movie_files = <<>>
    /\ num_movies = 0
    /\ selected_movies = <<>>
    /\ i = 0
    /\ results = <<>>
    /\ call = None

AlbumIdle ==
    /\ remove = FALSE
    /\ dest = None
    /\ album_ok = TRUE
    /\ fs = [p \in AllPaths |-> "absent"]
    /\ fs0 = fs
    /\ m4a_files = <<>>
    /\ idx = 0
    /\ processed = 0
    /\ failed = 0
    /\ skipped = 0
    /\ skipped_files = <<>>
    /\ history = <<>>
    /\ mkdirs = <<>>

InitAlbum ==
    /\ script = "convert_album_to_alac"
    /\ pc = "main"
    /\ exit_code = -1
    /\ output = <<>>
    /\ ClipIdle
    /\ remove \in BOOLEAN
    /\ dest \in Dests
    /\ album_ok \in BOOLEAN
    /\ fs \in InitialFs
    /\ (dest # Some("elsewhere") => \A p \in AllPaths : p.dir = "dest" => fs[p] = "absent")
    /\ (~album_ok => fs = [p \in AllPaths |-> "absent"])
    /\ fs0 = fs
    /\ m4a_files = <<>>
    /\ idx = 0
    /\ processed = 0
    /\ failed = 0
    /\ skipped = 0
    /\ skipped_files = <<>>
    /\ history = <<>>
    /\ mkdirs = <<>>

InitClip ==
    /\ script = "extract_clip"
    /\ pc = "main"
    /\ exit_code = -1
    /\ output = <<>>
    /\ args \in [input : Inputs, source : Sources, count : Counts,
                 duration : ClipDurations]
    /\ mode = "none"
    /\ found \in {SubSeq(Paths, 1, n) : n \in 0..MaxFiles}
    /\ movie_files = <<>>
    /\ num_movies = 0
    /\ selected_movies = <<>>
    /\ i = 0
    /\ results = <<>>
    /\ call = None
    /\ AlbumIdle

Init == InitClip \/ InitAlbum

\* the steps of extract_clip.py
ClipNext == Main \/ SingleFile \/ SelectMovies \/ ProcessMovie \/ BatchEnd

\* the steps of convert_album_to_alac.py
AlbumNext == AlbumMain \/ ConvertNext \/ AlbumEnd

Next == ClipNext \/ AlbumNext

Spec == Init /\ [][Next]_vars

\* The runs of extract_clip.py with the default --duration.  The script is
\* one sequential thread whose collaborators return, so a step that can be
\* taken is taken: weak fairness of its steps.
FairInit == InitClip /\ args.duration = DefaultDuration

FairSpec == FairInit /\ [][ClipNext]_vars /\ WF_vars(ClipNext)

(* ------------------------------ claims -------------------------------- *)

Ended == pc \in {"done", "exited", "crashed"}

HasMsg(kind) == \E k \in DOMAIN output : output[k].kind = kind

Count(seq, S) == Cardinality({k \in DOMAIN seq : seq[k] \in S})

\* total_duration < clip_duration / (1 - 2*0.15) on the real numbers
BelowThreshold(total, duration) ==
    XCmp[XMulInt[total, 100 - 2 * 15], XInt[100 * duration]] < 0

\* C1 (as stated; the code departs from it at total 30 s, clip 21 s, where it
\* computes no window, and by the rounding of its window arithmetic):
\* whenever extract_clip probed a total duration with
\* total >= clip / (1 - 2*0.15), for every value of the random draw the call
\* computed a window with start >= total*0.15, end <= total*(1-0.15),
\* end - start = clip and 0 <= start < end <= total, on the real numbers.
C1_FractionalWindow ==
    \A c \in call :
        (c.total # None /\ ~BelowThreshold(Get(c.total), c.duration)) =>
            /\ c.window # <<>>
            /\ XCmp[XMulInt[c.window[1], 100], XMulInt[Get(c.total), 15]] >= 0
            /\ XCmp[XMulInt[c.window[2], 100],
                    XMulInt[Get(c.total), 100 - 15]] <= 0
            /\ XCmp[XAdd[c.window[2], XNeg[c.window[1]]], XInt[c.duration]] = 0
            /\ XCmp[Zero, c.window[1]] <= 0
            /\ XCmp[c.window[1], c.window[2]] < 0
            /\ XCmp[c.window[2], Get(c.total)] <= 0

\* C2 (as stated; the code departs from it at total 4.285714285714286 s,
\* the double 3 / 0.7 evaluates to, and clip 3 s): whenever extract_clip
\* probed a total duration with total < clip / (1 - 2*0.15), the call failed
\* as too short, computed no start/end and never called subclipped /
\* write_videofile.
C2_TooShortNoWindow ==
    \A c \in call :
        (c.total # None /\ BelowThreshold(Get(c.total), c.duration)) =>
            /\ c.outcome = "too_short"
            /\ c.window = <<>>
            /\ ~c.extracted
            /\ ~c.raised

\* C3: once process_multiple_movies has selected, the subset has no
\* duplicate, holds only candidates and has at most
\* min(requested, len(candidates)) items; a request larger than the number of
\* candidates never fails: it is clamped with a warning and the subset holds
\* every candidate.
C3_BatchSelection ==
    (script = "extract_clip" /\ mode = "batch" /\ pc # "batch") =>
        LET requested == Get(args.count)
            sel == selected_movies
        IN  /\ pc # "crashed" =>
                /\ \A a, b \in DOMAIN sel : a # b => sel[a] # sel[b]
                /\ Range(sel) \subseteq Range(found)
                /\ Len(sel) <= requested
                /\ Len(sel) <= Len(found)
            /\ requested > Len(found) =>
                /\ pc # "crashed"
                /\ \E k \in DOMAIN output :
                     output[k] = Msg("warning", <<Len(found)>>)
                /\ Range(sel) = Range(found)

\* two candidates, three requested: both are selected
C3_Witness ==
    /\ script = "extract_clip" /\ mode = "batch" /\ pc = "done"
    /\ Len(found) = 2 /\ args.count = Some(3)
    /\ Len(selected_movies) = 2
    /\ HasMsg("warning")

\* C4: in batch mode no failure of an item leaves extract_clip, so the run
\* never aborts after the selection, and once the loop is entered it reaches
\* its end with every item of the selected subset processed, in order.
C4_FailureIsolation ==
    /\ [](script = "extract_clip" /\ mode = "batch" /\ pc = "crashed"
            => results = <<>>)
    /\ [](script = "extract_clip" /\ mode = "batch" /\ pc = "loop"
            => <>(/\ pc = "done"
                  /\ i = Len(selected_movies)
                  /\ Len(results) = Len(selected_movies)))

\* the first item failed in the extraction, the second was still extracted
C4_Witness ==
    /\ script = "extract_clip" /\ mode = "batch" /\ pc = "done"
    /\ Len(results) = 2
    /\ results[1] = "extract_error"
    /\ results[2] = "ok"

Failures == {"io_error", "probe_error", "extract_error"}

\* C5: once the batch of extract_clip.py has exhausted a selected subset of
\* at least one item, a summary of succeeded / failed / skipped counts has
\* been reported that counts every processed item once under its outcome.
C5_BatchSummary ==
    (script = "extract_clip" /\ mode = "batch" /\ pc = "done"
        /\ results # <<>>) =>
        \E k \in DOMAIN output :
            /\ output[k].kind = "summary"
            /\ output[k].arg = <<Count(results, {"ok"}),
                                 Count(results, Failures),
                                 Count(results, {"too_short"})>>

\* a batch parameter was supplied together with --input
Mixed == args.input # None /\ (args.source # None \/ args.count # None)

\* C6: once main of extract_clip.py has arbitrated, a mixture of --input with
\* --source or --count (whatever their values) has ended the run with a
\* configuration error and a non-zero status before any processing; a run
\* that was not rejected is in exactly one of the two modes.
C6_ModeArbitration ==
    (script = "extract_clip" /\ pc # "main") =>
        /\ Mixed =>
             /\ pc = "exited"
             /\ exit_code > 0
             /\ HasMsg("config_error")
             /\ mode = "none"
             /\ results = <<>>
        /\ pc # "exited" => mode \in {"single", "batch"}

\* the enumeration of the source directory came back empty
NoCandidates ==
    \/ script = "extract_clip" /\ mode = "batch" /\ pc # "batch"
         /\ movie_files = <<>>
    \/ script = "convert_album_to_alac" /\ pc \notin {"main", "crashed"}
         /\ album_ok /\ m4a_files = <<>>

NothingProcessed == results = <<>> /\ history = <<>>

\* C7 as stated: a run whose enumeration yields zero candidates ends with a
\* non-zero exit status and processes no item.
C7_ZeroCandidatesNonZero ==
    (Ended /\ NoCandidates) => (exit_code > 0 /\ NothingProcessed)

\* C7 as amended: with zero candidates no item is processed;
\* convert_album_to_alac ends with exit status 4, and the batch of
\* extract_clip.py, for a positive --count, clamps the request with a warning
\* and ends with exit status 0.
C7_ZeroCandidates ==
    NoCandidates =>
        /\ NothingProcessed
        /\ script = "convert_album_to_alac" =>
             pc = "exited" /\ exit_code = 4
        /\ (script = "extract_clip" /\ Get(args.count) > 0) =>
             /\ pc \in {"loop", "done"}
             /\ pc = "done" => exit_code = 0
             /\ selected_movies = <<>>
             /\ output = <<Msg("warning", <<0>>)>>

\* an empty source tree, two clips requested: the run ended with status 0
C7_Witness ==
    /\ script = "extract_clip" /\ mode = "batch" /\ pc = "done"
    /\ found = <<>> /\ args.count = Some(2)
    /\ exit_code = 0

\* C8: a single-item run of extract_clip.py whose item failed (too short,
\* probe, extraction or I/O error) does not end with a success exit status.
C8_SingleModeFatal ==
    (script = "extract_clip" /\ mode = "single" /\ Ended
        /\ \E k \in DOMAIN results : results[k] # "ok")
    => exit_code > 0

\* the tally of convert_album_to_alac.main at an iteration boundary
TallyConsistent ==
    script = "convert_album_to_alac" =>
        /\ Len(skipped_files) = skipped
        /\ pc \in {"loop", "done"} => processed + failed + skipped = idx
        /\ pc = "crashed" => processed + failed + skipped \in {idx, idx + 1}
        /\ pc = "done" => processed + failed + skipped = Len(m4a_files)
        /\ processed = Count([k \in DOMAIN history |-> history[k].what],
                             {"processed"})
        /\ failed = Count([k \in DOMAIN history |-> history[k].what],
                          {"failed"})
        /\ skipped = Count([k \in DOMAIN history |-> history[k].what],
                           {"skipped"})

\* C9: in the loop of convert_album_to_alac.main, processed + failed +
\* skipped equals the number of files examined, skipped_files is as long as
\* skipped, no counter ever decreases, and at the end of the loop the
\* counters sum to the number of .m4a files found.
C9_TallyConsistency ==
    /\ []TallyConsistent
    /\ [][/\ processed' >= processed
          /\ failed' >= failed
          /\ skipped' >= skipped
          /\ Len(skipped_files') >= Len(skipped_files)]_vars

\* a finished run with a converted, a failed and a skipped file
C9_Witness ==
    /\ script = "convert_album_to_alac" /\ pc = "done"
    /\ processed >= 1 /\ failed >= 1 /\ skipped >= 1

\* C10: a source file is unlinked only with -r set and after its conversion
\* succeeded; a skipped or failed file stays as it was; and nothing that
\* existed when the run started is overwritten or removed otherwise.
C10_SourcePreservation ==
    script = "convert_album_to_alac" =>
        /\ \A k \in DOMAIN history :
             /\ history[k].unlinked =>
                  remove /\ history[k].what = "processed"
             /\ history[k].what \in {"skipped", "failed", "aborted"} =>
                  fs[history[k].file] = fs0[history[k].file]
        /\ \A p \in AllPaths :
             (fs0[p] # "absent" /\ fs[p] # fs0[p]) =>
                 /\ remove
                 /\ fs[p] = "absent"
                 /\ \E k \in DOMAIN history :
                      /\ history[k].file = p
                      /\ history[k].what = "processed"
                      /\ history[k].unlinked

\* with -r: one source converted and unlinked, another skipped because its
\* output existed, and that output is still the file it was
C10_Witness ==
    /\ script = "convert_album_to_alac" /\ remove /\ pc = "done"
    /\ \E k \in DOMAIN history : history[k].unlinked
    /\ \E k \in DOMAIN output :
         /\ output[k].kind = "skip_exists"
         /\ fs[output[k].arg[1]] = "file"

====
